---- MODULE Spec2Model ----
(***************************************************************************)
(* The balloon-popper game server (the server program of src/common.mts,   *)
(* lines 154-689): the connection handler, the message handler, the close  *)
(* handler and the tick loop, over the players registry, the balloons map  *)
(* and the per-tick inboxes.                                               *)
(*                                                                         *)
(* JavaScript Maps and Sets iterate in insertion order, so the inboxes are *)
(* sequences: a Map is a sequence of [k, v] entries with distinct keys, a  *)
(* Set a sequence without repetition.  The players Map is keyed by ids     *)
(* that only grow, so its insertion order is ascending id and it is a      *)
(* function here.  A Uint8Array is an object: it is a record of its        *)
(* identity (obj) and its bytes, and === compares identities.              *)
(*                                                                         *)
(* The wire codec of src/common.mts, lines 691-913, is modelled beside it:  *)
(* the layouts, their integer and byte-array fields, and verify.           *)
(*                                                                         *)
(* Not modelled: a balloon's x, y and timestamp (the Float32 fields), the  *)
(* Average samples, and the byte counters of the receive path.             *)
(***************************************************************************)
EXTENDS Integers, Sequences, FiniteSets, TLC

VARIABLES
    players,               \* Map<number, PlayerOnServer>: id -> [username, score]
    balloons,              \* Map<number, Balloon>: id -> [hue]
    idCounter,             \* shared id counter of connections and balloons
    balloonCounter,        \* the live-balloon counter
    joinedIds,             \* Set: connections accepted since the last tick
    leftIds,               \* Set: connections closed since the last tick
    pingIds,               \* Map: connection id -> timestamp
    requestUsernameIds,    \* Map: player id of the frame -> Uint8Array
    setUsernameIds,        \* Set: newly named connections
    createdBalloonIds,     \* Set: balloons created in the tick
    poppedBalloonIds,      \* Map: balloon id -> player id of the frame
    updatedScorePlayerIds, \* Set: connections marked for a score broadcast
    ticksCount,            \* Stats.ticksCount.counter
    messagesSent,          \* Stats.messagesSent.counter
    bytesSent,             \* Stats.bytesSent.counter
    messagesReceived,      \* Stats.messagesReceived.counter
    bsMessages,            \* Stats.bsMessages.counter
    playersRejected,       \* Stats.playersRejected.counter
    playersJoined,         \* Stats.playersJoined.counter
    playersLeft,           \* Stats.playersLeft.counter
    playersCurrently,      \* Stats.playersCurrently.counter
    closing,               \* sockets on which the server called ws.close()
    sent,                  \* the messages the latest tick sent, in order
    first,                 \* history: kind of the first message ever sent to a connection
    popFrom,               \* history: balloon id -> socket that delivered the pending pop
    nameFrom,              \* history: player id -> socket that delivered its pending name request
    awardedFor,            \* history: balloon id -> points awarded for it so far
    issued,                \* history: every id taken from idCounter, in order, with its use
    lastPing,              \* history: connection id -> timestamp of its latest Ping since the last tick
    announced,             \* history: balloon ids sent in a BalloonCreated
    applied,               \* history: announced balloon ids whose pop, from a named socket, a tick applied
    timers,                \* pending setTimeout(tick) callbacks
    codecIn,               \* the input handed to the wire codec
    codecOut,              \* what the codec returned for it
    client,                \* connection id -> the state of the client program on its socket
    wire                   \* connection id -> the messages sent to that client and not yet handled

vars == <<players, balloons, idCounter, balloonCounter, joinedIds, leftIds,
          pingIds, requestUsernameIds, setUsernameIds, createdBalloonIds,
          poppedBalloonIds, updatedScorePlayerIds, ticksCount, messagesSent, bytesSent,
          messagesReceived, bsMessages, playersRejected, playersJoined,
          playersLeft, playersCurrently, closing, sent, first, popFrom, nameFrom,
          awardedFor, issued, lastPing, announced, applied, timers,
          codecIn, codecOut, client, wire>>

\* the client programs, which the server's connection, message and close
\* handlers leave alone
clients == <<client, wire>>

\* the state of the server program
server == <<players, balloons, idCounter, balloonCounter, joinedIds, leftIds,
            pingIds, requestUsernameIds, setUsernameIds, createdBalloonIds,
            poppedBalloonIds, updatedScorePlayerIds, ticksCount, messagesSent, bytesSent,
            messagesReceived, bsMessages, playersRejected, playersJoined,
            playersLeft, playersCurrently, closing, sent, first, popFrom, nameFrom,
            awardedFor, issued, lastPing, announced, applied, timers>>

\* the codec's input and output, which the server's handlers leave alone
codec == <<codecIn, codecOut>>

----------------------------------------------------------------------------
(* Program constants *)

SERVER_FPS == 60

SERVER_LIMIT == 10

BALLOON_LIMIT == 10

USERNAME_LENGTH == 8

SCORE_INCREMENT == 5

UINT8_SIZE == 1

UINT32_SIZE == 4

FLOAT32_SIZE == 4

\* Math.floor(Math.random() * 360): the hues of a spawned balloon are 0..359
HueLimit == 360

----------------------------------------------------------------------------
(* Bounds of the model *)

MaxIds == 2

MaxMessages == 2

MaxTicks == 2

GameConns == 2

GameMessages == 2

GameTicks == 2

CapJoins == 11

CapRejected == 1

CapLeft == 1

CapTicks == 1

SoloMessages == 3

SoloTicks == 32

SpawnMessages == 2

SpawnTicks == 301

WireConns == 1

WireLeft == 1

WireMessages == 2

EchoConns == 2

EchoMessages == 3

EchoTicks == 2

FillMessages == 1

FillTicks == 301

PairMessages == 4

PairTicks == 32

ClientConns == 2

ClientFrames == 3

ClientTicks == 32

BusyIds == 256

BusyConns == 1

BusyFrames == 2

BusyTicks == 3

StaleConns == 2

StaleLeft == 1

StaleMessages == 2

StaleTicks == 2

StayMessages == 2

StayNameBy == 2

StayTicks == 31

MaxBufferLen == 19

MaxStrLen == 9

WireTicks == 2

----------------------------------------------------------------------------
(* Input domains *)

\* stringToUint8Array("a", 8) and stringToUint8Array("b", 8)
Names == { <<97, 0, 0, 0, 0, 0, 0, 0>>, <<98, 0, 0, 0, 0, 0, 0, 0>> }

PingStamps == {1, 2}

Hues == {0}

----------------------------------------------------------------------------
(* Maps and Sets in insertion order *)

Range(s) == { s[i] : i \in DOMAIN s }

Keys(m) == { m[i].k : i \in DOMAIN m }

MapGet(m, key) == (CHOOSE i \in DOMAIN m : m[i].k = key)

MapSet(m, key, val) ==
    IF key \in Keys(m)
    THEN [i \in DOMAIN m |-> IF m[i].k = key THEN [k |-> key, v |-> val] ELSE m[i]]
    ELSE Append(m, [k |-> key, v |-> val])

SetAdd(s, x) == IF x \in Range(s) THEN s ELSE Append(s, x)

SetDelete(s, x) == SelectSeq(s, LAMBDA y : y # x)

RECURSIVE Ascending(_)
Ascending(S) ==
    IF S = {} THEN <<>>
    ELSE LET m == CHOOSE x \in S : \A y \in S : x <= y
         IN <<m>> \o Ascending(S \ {m})

RECURSIVE Flatten(_)
Flatten(ss) == IF ss = <<>> THEN <<>> ELSE Head(ss) \o Flatten(Tail(ss))

----------------------------------------------------------------------------
(* Values *)

\* player.username before a name is accepted
Undefined == [obj |-> 0, bytes |-> <<>>]

\* a === b on a username: the same Uint8Array object
StrictEquals(a, b) == a.obj = b.obj

\* player.username !== undefined (the same players pass `if (player.username)`:
\* an object is truthy)
HasUsername(p) == p.username # Undefined

NamedIds(pl) == { id \in DOMAIN pl : HasUsername(pl[id]) }

MessageKind ==
    [Hello |-> 0, Ping |-> 1, Pong |-> 2, BalloonCreated |-> 3, BalloonPop |-> 4,
     SetUsername |-> 5, ValidUsername |-> 6]

Layouts == DOMAIN MessageKind

Field(name, type) == [name |-> name, type |-> type]

\* the fields of each layout, in the order its allocator hands them out
LayoutFields ==
    [Hello |-> << Field("kind", "uint8"), Field("id", "uint32") >>,
     SetUsername |-> << Field("kind", "uint8"), Field("id", "uint8"),
                        Field("value", "uint8array") >>,
     ValidUsername |-> << Field("kind", "uint8"), Field("value", "uint8array"),
                          Field("valid", "uint8") >>,
     Ping |-> << Field("kind", "uint8"), Field("timestamp", "uint32") >>,
     Pong |-> << Field("kind", "uint8"), Field("timestamp", "uint32") >>,
     BalloonCreated |-> << Field("kind", "uint8"), Field("timestamp", "uint32"),
                           Field("id", "uint32"), Field("x", "float32"),
                           Field("y", "float32"), Field("hue", "uint8") >>,
     BalloonPop |-> << Field("kind", "uint8"), Field("timestamp", "uint32"),
                       Field("id", "uint32") >>]

FieldSize(type) ==
    CASE type = "uint8" -> UINT8_SIZE
      [] type = "uint32" -> UINT32_SIZE
      [] type = "float32" -> FLOAT32_SIZE
      [] type = "uint8array" -> UINT8_SIZE * USERNAME_LENGTH

\* allocator.size once the first n fields of the layout are allocated: the offset
\* of field n + 1
RECURSIVE Allocated(_, _)
Allocated(layout, n) ==
    IF n = 0 THEN 0
    ELSE Allocated(layout, n - 1) + FieldSize(LayoutFields[layout][n].type)

LayoutSize(layout) == Allocated(layout, Len(LayoutFields[layout]))

\* the header of a batched message (tag and count) and one of its records (id,
\* name and score; id and name; id and score), with the widths these fields
\* have in the fixed layouts
BatchHeaderSize == UINT8_SIZE + UINT8_SIZE

BatchRecordSize(kind) ==
    CASE kind = "Players" -> UINT32_SIZE + UINT8_SIZE * USERNAME_LENGTH + UINT32_SIZE
      [] kind = "PlayersJoined" -> UINT32_SIZE + UINT8_SIZE * USERNAME_LENGTH
      [] kind = "PlayersScores" -> UINT32_SIZE + UINT32_SIZE

\* view.byteLength, buffer.byteLength of a message the tick sends: the size of
\* its layout, or header size + count * record size
ByteLength(msg) ==
    IF msg.kind \in Layouts THEN LayoutSize(msg.kind)
    ELSE BatchHeaderSize + Len(msg.recs) * BatchRecordSize(msg.kind)

RECURSIVE Bytes(_)
Bytes(out) == IF out = << >> THEN 0 ELSE ByteLength(Head(out)) + Bytes(Tail(out))

Msg(to, kind, id, name, valid, recs) ==
    [to |-> to, kind |-> kind, id |-> id, name |-> name, valid |-> valid, recs |-> recs]

\* faulty variant of Broadcast: the loop without its username test
BroadcastToAll(pl, kind, id, recs) ==
    LET to == Ascending(DOMAIN pl)
    IN [i \in DOMAIN to |-> Msg(to[i], kind, id, <<>>, 0, recs)]

\* players.forEach(player => { if (player.username !== undefined) player.ws.send(view) })
Broadcast(pl, kind, id, recs) ==
    LET to == Ascending(NamedIds(pl))
    IN [i \in DOMAIN to |-> Msg(to[i], kind, id, <<>>, 0, recs)]

\* faulty variant of ServerFull: the limit test lets one connection too many in
ServerFullOffByOne == Cardinality(DOMAIN players) > SERVER_LIMIT

ServerFull == Cardinality(DOMAIN players) >= SERVER_LIMIT

\* faulty variant of PostIncrement: the counter is not advanced
PostIncrementStuck(counter) == counter

\* idCounter++: the counter once an id is taken from it
PostIncrement(counter) == counter + 1

\* the codec before any call
NoCall == [op |-> "none", layout |-> "none", field |-> "none", value |-> 0, bytes |-> << >>]

NoResult == [done |-> FALSE, throws |-> FALSE, accept |-> FALSE, value |-> 0, bytes |-> << >>]

----------------------------------------------------------------------------
(* State after construction *)

Init ==
    /\ players = << >>
    /\ balloons = << >>
    /\ idCounter = 0
    /\ balloonCounter = 0
    /\ joinedIds = << >>
    /\ leftIds = << >>
    /\ pingIds = << >>
    /\ requestUsernameIds = << >>
    /\ setUsernameIds = << >>
    /\ createdBalloonIds = << >>
    /\ poppedBalloonIds = << >>
    /\ updatedScorePlayerIds = << >>
    /\ ticksCount = 0
    /\ messagesSent = 0
    /\ bytesSent = 0
    /\ messagesReceived = 0
    /\ bsMessages = 0
    /\ playersRejected = 0
    /\ playersJoined = 0
    /\ playersLeft = 0
    /\ playersCurrently = 0
    /\ closing = {}
    /\ sent = << >>
    /\ first = << >>
    /\ popFrom = << >>
    /\ nameFrom = << >>
    /\ awardedFor = << >>
    /\ issued = << >>
    /\ lastPing = << >>
    /\ announced = {}
    /\ applied = {}
    /\ timers = 1
    /\ codecIn = NoCall
    /\ codecOut = NoResult
    /\ client = << >>
    /\ wire = << >>

----------------------------------------------------------------------------
(* wss.on('connection') *)

Connect ==
    IF ServerFull
    THEN /\ playersRejected' = playersRejected + 1
         /\ UNCHANGED <<players, balloons, idCounter, balloonCounter, joinedIds,
                        leftIds, pingIds, requestUsernameIds, setUsernameIds,
                        createdBalloonIds, poppedBalloonIds, updatedScorePlayerIds,
                        ticksCount, messagesSent, bytesSent, messagesReceived, bsMessages, playersJoined,
                        playersLeft, playersCurrently, closing, sent, first,
                        popFrom, nameFrom, awardedFor, issued, lastPing, announced,
                        applied, timers, codec, clients>>
    ELSE LET id == idCounter
         IN /\ idCounter' = PostIncrement(idCounter)
            /\ issued' = Append(issued, [id |-> id, use |-> "connection"])
            /\ players' = [x \in DOMAIN players \cup {id} |->
                             IF x = id THEN [username |-> Undefined, score |-> 0]
                             ELSE players[x]]
            /\ joinedIds' = SetAdd(joinedIds, id)
            /\ playersJoined' = playersJoined + 1
            /\ playersCurrently' = playersCurrently + 1
            /\ first' = [x \in DOMAIN first \cup {id} |->
                           IF x = id THEN "none" ELSE first[x]]
            /\ UNCHANGED <<balloons, balloonCounter, leftIds, pingIds,
                           requestUsernameIds, setUsernameIds, createdBalloonIds,
                           poppedBalloonIds, updatedScorePlayerIds, ticksCount, messagesSent, bytesSent,
                           messagesReceived, bsMessages, playersRejected,
                           playersLeft, closing, sent, popFrom, nameFrom, awardedFor,
                           lastPing, announced, applied, timers, codec, clients>>

----------------------------------------------------------------------------
(* ws.addEventListener('message'), on the socket of connection id *)

\* event.data is not an ArrayBuffer
ReceiveNonBinary(id) ==
    /\ id \in DOMAIN players
    /\ messagesReceived' = messagesReceived + 1
    /\ bsMessages' = bsMessages + 1
    /\ closing' = closing \cup {id}
    /\ UNCHANGED <<players, balloons, idCounter, balloonCounter, joinedIds, leftIds,
                   pingIds, requestUsernameIds, setUsernameIds, createdBalloonIds,
                   poppedBalloonIds, updatedScorePlayerIds, ticksCount, messagesSent, bytesSent,
                   playersRejected, playersJoined, playersLeft, playersCurrently,
                   sent, first, popFrom, nameFrom, awardedFor, issued, lastPing, announced,
                   applied, timers, codec, clients>>

\* a buffer that SetUsernameStruct verifies
ReceiveSetUsername(id, playerId, bytes) ==
    /\ id \in DOMAIN players
    /\ messagesReceived' = messagesReceived + 1
    /\ requestUsernameIds' =
           MapSet(requestUsernameIds, playerId,
                  [obj |-> messagesReceived + 1, bytes |-> bytes])
    /\ nameFrom' = [p \in DOMAIN nameFrom \cup {playerId} |->
                       IF p = playerId THEN id ELSE nameFrom[p]]
    /\ UNCHANGED <<players, balloons, idCounter, balloonCounter, joinedIds, leftIds,
                   pingIds, setUsernameIds, createdBalloonIds, poppedBalloonIds,
                   updatedScorePlayerIds, ticksCount, messagesSent, bytesSent, bsMessages, playersRejected,
                   playersJoined, playersLeft, playersCurrently, closing, sent,
                   first, popFrom, awardedFor, issued, lastPing, announced,
                   applied, timers, codec, clients>>

\* a buffer that PingStruct verifies
ReceivePing(id, timestamp) ==
    /\ id \in DOMAIN players
    /\ messagesReceived' = messagesReceived + 1
    /\ pingIds' = MapSet(pingIds, id, timestamp)
    /\ lastPing' = [x \in DOMAIN lastPing \cup {id} |->
                      IF x = id THEN timestamp ELSE lastPing[x]]
    /\ UNCHANGED <<players, balloons, idCounter, balloonCounter, joinedIds, leftIds,
                   requestUsernameIds, setUsernameIds, createdBalloonIds,
                   poppedBalloonIds, updatedScorePlayerIds, ticksCount, messagesSent, bytesSent, bsMessages,
                   playersRejected, playersJoined, playersLeft, playersCurrently,
                   closing, sent, first, popFrom, nameFrom, awardedFor, issued, announced,
                   applied, timers, codec, clients>>

\* balloons.delete(key)
MapDelete(f, key) == [x \in DOMAIN f \ {key} |-> f[x]]

\* a buffer that BalloonPopStruct verifies; balloonId and playerId are the frame's
\* id and playerId fields, whatever the client wrote in them
ReceiveBalloonPop(id, balloonId, playerId) ==
    /\ id \in DOMAIN players
    /\ messagesReceived' = messagesReceived + 1
    /\ IF balloonId \in DOMAIN balloons
       THEN /\ balloons' = MapDelete(balloons, id)
            /\ poppedBalloonIds' = MapSet(poppedBalloonIds, balloonId, playerId)
            /\ balloonCounter' = balloonCounter - 1
            /\ popFrom' = [b \in DOMAIN popFrom \cup {balloonId} |->
                             IF b = balloonId
                             THEN [from |-> id, named |-> HasUsername(players[id])]
                             ELSE popFrom[b]]
       ELSE UNCHANGED <<balloons, poppedBalloonIds, balloonCounter, popFrom>>
    /\ UNCHANGED <<players, idCounter, joinedIds, leftIds, pingIds,
                   requestUsernameIds, setUsernameIds, createdBalloonIds,
                   updatedScorePlayerIds, ticksCount, messagesSent, bytesSent, bsMessages, playersRejected,
                   playersJoined, playersLeft, playersCurrently, closing, sent,
                   first, nameFrom, awardedFor, issued, lastPing, announced,
                   applied, timers, codec, clients>>

\* faulty variant of ReceiveUnverified: the frame is counted and the socket left open
ReceiveUnverifiedStaysOpen(id) ==
    /\ id \in DOMAIN players
    /\ messagesReceived' = messagesReceived + 1
    /\ bsMessages' = bsMessages + 1
    /\ UNCHANGED <<players, balloons, idCounter, balloonCounter, joinedIds, leftIds,
                   pingIds, requestUsernameIds, setUsernameIds, createdBalloonIds,
                   poppedBalloonIds, updatedScorePlayerIds, ticksCount, messagesSent, bytesSent,
                   playersRejected, playersJoined, playersLeft, playersCurrently,
                   closing, sent, first, popFrom, nameFrom, awardedFor, issued, lastPing,
                   announced, applied, timers, codec, clients>>

\* a buffer that no layout verifies
ReceiveUnverified(id) ==
    /\ id \in DOMAIN players
    /\ messagesReceived' = messagesReceived + 1
    /\ bsMessages' = bsMessages + 1
    /\ closing' = closing \cup {id}
    /\ UNCHANGED <<players, balloons, idCounter, balloonCounter, joinedIds, leftIds,
                   pingIds, requestUsernameIds, setUsernameIds, createdBalloonIds,
                   poppedBalloonIds, updatedScorePlayerIds, ticksCount, messagesSent, bytesSent,
                   playersRejected, playersJoined, playersLeft, playersCurrently,
                   sent, first, popFrom, nameFrom, awardedFor, issued, lastPing, announced,
                   applied, timers, codec, clients>>

----------------------------------------------------------------------------
(* ws.on("close"), on the socket of connection id *)

\* faulty variant of Close: the currently-connected counter is left as it is
CloseKeepsCurrently(id) ==
    /\ id \in DOMAIN players
    /\ players' = MapDelete(players, id)
    /\ playersLeft' = playersLeft + 1
    /\ IF id \in Range(joinedIds)
       THEN joinedIds' = SetDelete(joinedIds, id) /\ UNCHANGED leftIds
       ELSE leftIds' = SetAdd(leftIds, id) /\ UNCHANGED joinedIds
    /\ closing' = closing \ {id}
    /\ UNCHANGED <<balloons, idCounter, balloonCounter, pingIds, requestUsernameIds,
                   setUsernameIds, createdBalloonIds, poppedBalloonIds,
                   updatedScorePlayerIds, ticksCount, messagesSent, bytesSent, messagesReceived, bsMessages,
                   playersRejected, playersJoined, playersCurrently, sent, first,
                   popFrom, nameFrom, awardedFor, issued, lastPing, announced,
                   applied, timers, codec, clients>>

\* faulty variant of Close: the left inbox is written whatever joinedIds held
CloseAlwaysLeft(id) ==
    /\ id \in DOMAIN players
    /\ players' = MapDelete(players, id)
    /\ playersLeft' = playersLeft + 1
    /\ playersCurrently' = playersCurrently - 1
    /\ joinedIds' = SetDelete(joinedIds, id)
    /\ leftIds' = SetAdd(leftIds, id)
    /\ closing' = closing \ {id}
    /\ UNCHANGED <<balloons, idCounter, balloonCounter, pingIds, requestUsernameIds,
                   setUsernameIds, createdBalloonIds, poppedBalloonIds,
                   updatedScorePlayerIds, ticksCount, messagesSent, bytesSent, messagesReceived, bsMessages,
                   playersRejected, playersJoined, sent, first, popFrom, nameFrom, awardedFor,
                   issued, lastPing, announced, applied, timers, codec, clients>>

Close(id) ==
    /\ id \in DOMAIN players
    /\ players' = MapDelete(players, id)
    /\ playersLeft' = playersLeft + 1
    /\ playersCurrently' = playersCurrently - 1
    /\ IF id \in Range(joinedIds)
       THEN joinedIds' = SetDelete(joinedIds, id) /\ UNCHANGED leftIds
       ELSE leftIds' = SetAdd(leftIds, id) /\ UNCHANGED joinedIds
    /\ closing' = closing \ {id}
    /\ UNCHANGED <<balloons, idCounter, balloonCounter, pingIds, requestUsernameIds,
                   setUsernameIds, createdBalloonIds, poppedBalloonIds,
                   updatedScorePlayerIds, ticksCount, messagesSent, bytesSent, messagesReceived, bsMessages,
                   playersRejected, playersJoined, sent, first, popFrom, nameFrom, awardedFor,
                   issued, lastPing, announced, applied, timers, codec, clients>>

----------------------------------------------------------------------------
(* tick(): the steps, each a function of what the steps before it left *)

\* faulty variant of AwardScores: one award for a player in a tick, however many
\* pending pops name it
AwardScoresOnce(pl, popped) ==
    [id \in DOMAIN pl |->
        [pl[id] EXCEPT !.score =
            @ + (IF \E i \in DOMAIN popped : popped[i].v = id
                 THEN SCORE_INCREMENT ELSE 0)]]

\* player.score += 5, once for every pending pop whose player id is live
AwardScores(pl, popped) ==
    [id \in DOMAIN pl |->
        [pl[id] EXCEPT !.score =
            @ + SCORE_INCREMENT * Cardinality({ i \in DOMAIN popped : popped[i].v = id })]]

\* updatedScorePlayerIds.add(playerId), in the order of the pending pops
RECURSIVE MarkScores(_, _, _)
MarkScores(pl, popped, updated) ==
    IF popped = << >> THEN updated
    ELSE MarkScores(pl, Tail(popped),
                    IF Head(popped).v \in DOMAIN pl
                    THEN SetAdd(updated, Head(popped).v)
                    ELSE updated)

\* one BalloonPop per pending pop, to every connection with a username
PopBroadcast(pl, popped) ==
    Flatten([i \in DOMAIN popped |-> Broadcast(pl, "BalloonPop", popped[i].k, << >>)])

\* valid = !players.some(player => player.username === username)
ValidName(pl, username) ==
    ~ \E id \in DOMAIN pl : StrictEquals(pl[id].username, username)

\* requestUsernameIds.forEach: st = [players, out, setIds]
RECURSIVE NameNegotiation(_, _)
NameNegotiation(reqs, st) ==
    IF reqs = << >> THEN st
    ELSE LET playerId == Head(reqs).k
             username == Head(reqs).v
             valid == ValidName(st.players, username)
         IN IF playerId \in DOMAIN st.players
            THEN NameNegotiation(Tail(reqs),
                   [players |-> IF valid
                                THEN [st.players EXCEPT ![playerId].username = username]
                                ELSE st.players,
                    out |-> Append(st.out,
                                   Msg(playerId, "ValidUsername", 0, username.bytes,
                                       IF valid THEN 1 ELSE 0, << >>)),
                    setIds |-> IF valid THEN SetAdd(st.setIds, playerId) ELSE st.setIds])
            ELSE NameNegotiation(Tail(reqs), st)

\* faulty variant of PlayersRecords: the filter does not test setUsernameIds
PlayersRecordsOfAll(pl, setIds) ==
    LET existing == Ascending(NamedIds(pl))
    IN [i \in DOMAIN existing |->
          [id |-> existing[i], username |-> pl[existing[i]].username.bytes,
           score |-> pl[existing[i]].score]]

\* the Players buffer: the named players outside the newly named set
PlayersRecords(pl, setIds) ==
    LET existing == Ascending({ id \in NamedIds(pl) : id \notin Range(setIds) })
    IN [i \in DOMAIN existing |->
          [id |-> existing[i], username |-> pl[existing[i]].username.bytes,
           score |-> pl[existing[i]].score]]

\* the Players buffer goes to every newly named connection still in the registry
PlayersSnapshot(pl, setIds) ==
    LET to == SelectSeq(setIds, LAMBDA id : id \in DOMAIN pl)
    IN [i \in DOMAIN to |->
          Msg(to[i], "Players", 0, << >>, 0, PlayersRecords(pl, setIds))]

\* the PlayersJoined buffer: the newly named connections
JoinedRecords(pl, setIds) ==
    LET named == SelectSeq(setIds, LAMBDA id : id \in DOMAIN pl /\ HasUsername(pl[id]))
    IN [i \in DOMAIN named |->
          [id |-> named[i], username |-> pl[named[i]].username.bytes]]

\* the PlayersJoined buffer goes to every named connection outside the set
PlayersJoinedBroadcast(pl, setIds) ==
    LET to == Ascending({ id \in NamedIds(pl) : id \notin Range(setIds) })
    IN [i \in DOMAIN to |->
          Msg(to[i], "PlayersJoined", 0, << >>, 0, JoinedRecords(pl, setIds))]

NewlyNamedBroadcast(pl, setIds) ==
    IF Len(setIds) > 0
    THEN PlayersSnapshot(pl, setIds) \o PlayersJoinedBroadcast(pl, setIds)
    ELSE << >>

\* the records the PlayersScores buffer holds once the first n marked ids are
\* handled: the buffer has room for one record per marked id, a record is written
\* at the next free index for an id that is live and named, and the records not
\* written yet are the zero bytes of the new ArrayBuffer
ScoreRecords(pl, updated, n) ==
    LET written == SelectSeq(SubSeq(updated, 1, n),
                             LAMBDA id : id \in DOMAIN pl /\ HasUsername(pl[id]))
    IN [i \in DOMAIN updated |->
          IF i <= Len(written)
          THEN [id |-> written[i], score |-> pl[written[i]].score]
          ELSE [id |-> 0, score |-> 0]]

\* the buffer is broadcast inside the loop over the marked ids, once for each
ScoresBroadcast(pl, updated) ==
    Flatten([n \in DOMAIN updated |->
               Broadcast(pl, "PlayersScores", 0, ScoreRecords(pl, updated, n))])

\* joinedIds.forEach: Hello to each joined connection still in the registry
HelloMessages(pl, joined) ==
    LET to == SelectSeq(joined, LAMBDA id : id \in DOMAIN pl)
    IN [i \in DOMAIN to |-> Msg(to[i], "Hello", to[i], << >>, 0, << >>)]

\* faulty variant of PongMessages: the registry is not asked for the connection
PongMessagesToGone(pl, pings) ==
    [i \in DOMAIN pings |-> Msg(pings[i].k, "Pong", pings[i].v, << >>, 0, << >>)]

\* faulty variant of PongMessages: the callback takes the Map's key for its value
PongMessagesOfKey(pl, pings) ==
    LET live == SelectSeq(pings, LAMBDA e : e.k \in DOMAIN pl)
    IN [i \in DOMAIN live |-> Msg(live[i].k, "Pong", live[i].k, << >>, 0, << >>)]

\* pingIds.forEach: Pong to each pinging connection still in the registry
PongMessages(pl, pings) ==
    LET live == SelectSeq(pings, LAMBDA e : e.k \in DOMAIN pl)
    IN [i \in DOMAIN live |-> Msg(live[i].k, "Pong", live[i].v, << >>, 0, << >>)]

\* faulty variant of SpawnConsidered: the tick counter is not tested
SpawnConsideredEveryTick(pl, counter, ticks) ==
    /\ NamedIds(pl) # {}
    /\ counter < BALLOON_LIMIT

\* the condition under which the tick draws for a spawn
SpawnConsidered(pl, counter, ticks) ==
    /\ NamedIds(pl) # {}
    /\ counter < BALLOON_LIMIT
    /\ ticks % (SERVER_FPS \div 2) = 0

\* faulty variant of DrawAllowed: the draw can fail whatever the counter
DrawOpen(counter, draw) == TRUE

\* Math.random() < Math.exp(-balloonCounter / (BALLOON_LIMIT / 4)) is certain when
\* the counter is 0 or less (the bound is 1 or more), and open otherwise
DrawAllowed(counter, draw) == counter <= 0 => draw

\* faulty variant of CreatedBroadcast: the loop runs over the balloons map
CreatedBroadcastOfMap(pl, bl, created) ==
    LET there == Ascending(DOMAIN bl)
    IN Flatten([i \in DOMAIN there |-> Broadcast(pl, "BalloonCreated", there[i], << >>)])

\* createdBalloonIds.forEach: BalloonCreated for each created balloon in the map
CreatedBroadcast(pl, bl, created) ==
    LET there == SelectSeq(created, LAMBDA b : b \in DOMAIN bl)
    IN Flatten([i \in DOMAIN there |-> Broadcast(pl, "BalloonCreated", there[i], << >>)])

\* history: the first message each connection was ever sent
FirstAfter(f, out) ==
    [id \in DOMAIN f |->
        IF f[id] = "none" /\ \E i \in DOMAIN out : out[i].to = id
        THEN out[CHOOSE i \in DOMAIN out :
                   out[i].to = id /\ \A j \in 1..(i - 1) : out[j].to # id].kind
        ELSE f[id]]

\* history: the points each pending pop awarded, added to its balloon's total
AwardedAfter(aw, pl, popped) ==
    [b \in DOMAIN aw \cup Keys(popped) |->
        (IF b \in DOMAIN aw THEN aw[b] ELSE 0)
        + (IF b \in Keys(popped) /\ popped[MapGet(popped, b)].v \in DOMAIN pl
           THEN SCORE_INCREMENT ELSE 0)]

\* history: the balloon ids the messages of a tick announce as created
AnnouncedIn(out) == { out[i].id : i \in { j \in DOMAIN out : out[j].kind = "BalloonCreated" } }

\* history: the pending pops a tick applies that a named socket delivered for an
\* announced balloon
AppliedIn(popped, from, known) ==
    { b \in Keys(popped) : b \in known /\ b \in DOMAIN from /\ from[b].named }

\* faulty variant of ClearInboxes: the ping inbox is left as it is
ClearInboxesButPings ==
    /\ createdBalloonIds' = << >>
    /\ poppedBalloonIds' = << >>
    /\ updatedScorePlayerIds' = << >>
    /\ joinedIds' = << >>
    /\ leftIds' = << >>
    /\ pingIds' = pingIds
    /\ requestUsernameIds' = << >>
    /\ setUsernameIds' = << >>

\* the clear() calls that end the tick
ClearInboxes ==
    /\ createdBalloonIds' = << >>
    /\ poppedBalloonIds' = << >>
    /\ updatedScorePlayerIds' = << >>
    /\ joinedIds' = << >>
    /\ leftIds' = << >>
    /\ pingIds' = << >>
    /\ requestUsernameIds' = << >>
    /\ setUsernameIds' = << >>

\* faulty variant of TimersAfterTick: the tick schedules itself twice
TimersAfterTickTwice(pending) == (pending - 1) + 2

\* the callback that runs is no longer pending, and its last statement is one
\* setTimeout(tick, ...)
TimersAfterTick(pending) == (pending - 1) + 1

\* player.ws.send: the messages of a tick's output join, in order, what is on the
\* way to each client program
Delivered(w, out) ==
    [id \in DOMAIN w |-> w[id] \o SelectSeq(out, LAMBDA msg : msg.to = id)]

\* tick() is one synchronous function: no handler runs between its statements
\* the messages of a tick in the order it sends them; a stage is the
\* sequence of the messages one part of the tick sends
SentIn(stages) ==
    stages.pop \o stages.name \o stages.newly \o stages.scores \o stages.hello
        \o stages.pong \o stages.created

\* let messageSentCounter = 0, and messageSentCounter += 1 beside every
\* ws.send of the tick that has one: the name result has none
messageSentCounter(stages) ==
    Len(stages.pop) + Len(stages.newly) + Len(stages.scores) + Len(stages.hello)
        + Len(stages.pong) + Len(stages.created)

\* let bytesSentCounter = 0, and bytesSentCounter += view.byteLength (or
\* buffer.byteLength) beside every ws.send that has one: the name result has
\* none, and the pong has bytesSentCounter += 1
bytesSentCounter(stages) ==
    Bytes(stages.pop) + Bytes(stages.newly) + Bytes(stages.scores)
        + Bytes(stages.hello) + Len(stages.pong) * 1 + Bytes(stages.created)

Tick(draw, hue) ==
    LET scored  == AwardScores(players, poppedBalloonIds)
        updated == MarkScores(players, poppedBalloonIds, updatedScorePlayerIds)
        popOut  == PopBroadcast(scored, poppedBalloonIds)
        named   == NameNegotiation(requestUsernameIds,
                                   [players |-> scored, out |-> << >>,
                                    setIds |-> setUsernameIds])
        pl      == named.players
        spawn   == SpawnConsidered(pl, balloonCounter, ticksCount) /\ draw
        bl      == IF spawn
                   THEN [b \in DOMAIN balloons \cup {idCounter} |->
                           IF b = idCounter THEN [hue |-> hue] ELSE balloons[b]]
                   ELSE balloons
        created == IF spawn THEN SetAdd(createdBalloonIds, idCounter)
                   ELSE createdBalloonIds
        stages  == [pop     |-> popOut,
                    name    |-> named.out,
                    newly   |-> NewlyNamedBroadcast(pl, named.setIds),
                    scores  |-> ScoresBroadcast(pl, updated),
                    hello   |-> HelloMessages(pl, joinedIds),
                    pong    |-> PongMessages(pl, pingIds),
                    created |-> CreatedBroadcast(pl, bl, created)]
    IN /\ timers > 0
       /\ DrawAllowed(balloonCounter, draw)
       /\ players' = pl
       /\ balloons' = bl
       /\ idCounter' = IF spawn THEN PostIncrement(idCounter) ELSE idCounter
       /\ issued' = IF spawn THEN Append(issued, [id |-> idCounter, use |-> "balloon"])
                    ELSE issued
       /\ balloonCounter' = IF spawn THEN balloonCounter + 1 ELSE balloonCounter
       /\ ticksCount' = ticksCount + 1
       /\ sent' = SentIn(stages)
       /\ messagesSent' = messagesSent + messageSentCounter(stages)
       /\ bytesSent' = bytesSent + bytesSentCounter(stages)
       /\ first' = FirstAfter(first, sent')
       /\ awardedFor' = AwardedAfter(awardedFor, players, poppedBalloonIds)
       /\ ClearInboxes
       /\ timers' = TimersAfterTick(timers)
       /\ popFrom' = << >>
       /\ nameFrom' = << >>
       /\ lastPing' = << >>
       /\ announced' = announced \cup AnnouncedIn(sent')
       /\ applied' = applied \cup AppliedIn(poppedBalloonIds, popFrom, announced)
       /\ wire' = Delivered(wire, sent')
       /\ UNCHANGED <<messagesReceived, bsMessages, playersRejected, playersJoined,
                      playersLeft, playersCurrently, closing, codec, client>>

----------------------------------------------------------------------------
(* The wire codec: layouts, fields and verify.  A buffer is the sequence of  *)
(* its bytes; byte offset o is element o + 1.                                *)

\* new DataView(new ArrayBuffer(size)): all bytes zero
ZeroBuffer(size) == [i \in 1..size |-> 0]

\* view.getUint8(offset) throws a RangeError outside the buffer
OutOfBounds(buf, offset, size) == offset < 0 \/ offset + size > Len(buf)

GetUint8(buf, offset) == buf[offset + 1]

\* view.setUint8(offset, value): the value modulo 2^8
SetUint8(buf, offset, value) == [buf EXCEPT ![offset + 1] = value % 256]

\* view.getUint32(offset, true): little-endian
GetUint32(buf, offset) ==
    buf[offset + 1] + 256 * buf[offset + 2] + 65536 * buf[offset + 3]
    + 16777216 * buf[offset + 4]

\* view.setUint32(offset, value, true), for the values below 2^31 the model draws
SetUint32(buf, offset, value) ==
    [buf EXCEPT ![offset + 1] = value % 256,
                ![offset + 2] = (value \div 256) % 256,
                ![offset + 3] = (value \div 65536) % 256,
                ![offset + 4] = (value \div 16777216) % 256]

\* the read of a Uint8Array field: a new array of USERNAME_LENGTH bytes
GetUint8Array(buf, offset) == [i \in 1..USERNAME_LENGTH |-> buf[offset + i]]

\* the write of a Uint8Array field: value[i] || 0 for each of USERNAME_LENGTH bytes
SetUint8Array(buf, offset, value) ==
    [j \in DOMAIN buf |->
        IF j > offset /\ j <= offset + USERNAME_LENGTH
        THEN (IF j - offset \in DOMAIN value THEN value[j - offset] ELSE 0)
        ELSE buf[j]]

Returned(accept) ==
    [done |-> TRUE, throws |-> FALSE, accept |-> accept, value |-> 0, bytes |-> << >>]

Thrown == [done |-> TRUE, throws |-> TRUE, accept |-> FALSE, value |-> 0, bytes |-> << >>]

\* faulty variant of Verifier: the tag is read before the length is tested
VerifierTagFirst(layout, buf) ==
    IF OutOfBounds(buf, 0, UINT8_SIZE) THEN Thrown
    ELSE Returned(GetUint8(buf, 0) = MessageKind[layout] /\ Len(buf) = LayoutSize(layout))

\* view.byteLength == size && kindField.read(view) == kind: the tag is read only
\* when the length matches
Verifier(layout, buf) ==
    IF Len(buf) = LayoutSize(layout)
    THEN IF OutOfBounds(buf, 0, UINT8_SIZE) THEN Thrown
         ELSE Returned(GetUint8(buf, 0) = MessageKind[layout])
    ELSE Returned(FALSE)

----------------------------------------------------------------------------
(* The server under every client: any live socket delivers any frame *)

PlayerIds == 0..(MaxIds - 1)

Next ==
    \/ (idCounter < MaxIds /\ Connect)
    \/ \E id \in DOMAIN players : Close(id)
    \/ \E id \in DOMAIN players :
          /\ messagesReceived < MaxMessages
          /\ \/ ReceiveNonBinary(id)
             \/ \E playerId \in PlayerIds, bytes \in Names :
                   ReceiveSetUsername(id, playerId, bytes)
             \/ \E timestamp \in PingStamps : ReceivePing(id, timestamp)
             \/ \E balloonId \in PlayerIds, playerId \in PlayerIds :
                   ReceiveBalloonPop(id, balloonId, playerId)
             \/ ReceiveUnverified(id)
    \/ (ticksCount < MaxTicks /\ \E draw \in BOOLEAN, hue \in Hues : Tick(draw, hue))

Spec == Init /\ [][Next]_vars

----------------------------------------------------------------------------
(* The server under clients that send name requests for themselves and pop   *)
(* requests naming any balloon and any player                                *)

GameIds == 0..GameConns

NextGame ==
    \/ (playersJoined < GameConns /\ Connect)
    \/ \E id \in DOMAIN players : Close(id)
    \/ \E id \in DOMAIN players :
          /\ messagesReceived < GameMessages
          /\ \/ \E bytes \in Names : ReceiveSetUsername(id, id, bytes)
             \/ \E balloonId \in GameIds, playerId \in GameIds :
                   ReceiveBalloonPop(id, balloonId, playerId)
    \/ (ticksCount < GameTicks
          /\ \E draw \in BOOLEAN, hue \in Hues : Tick(draw, hue))

SpecGame == Init /\ [][NextGame]_vars

----------------------------------------------------------------------------
(* The client program, one on each socket it opened.  me is << >> while      *)
(* undefined and <<id>> once the Hello is read; players maps the ids the      *)
(* client knows to their name and score.                                     *)

NewClient ==
    [me |-> << >>, named |-> FALSE, players |-> << >>, balloons |-> {},
     balloonPaths |-> {}, closed |-> FALSE]

\* the verify of a batched layout, as the specification gives it: the tag is the
\* kind (the length of a batch varies with its count)
BatchVerify(msg, kind) == msg.kind = kind

\* the count of a batched message: the records its buffer has room for
BatchCount(msg) == Len(msg.recs)

\* players.set(id, {id, username, score})
PlayersSet(known, id, username, score) ==
    [x \in DOMAIN known \cup {id} |->
        IF x = id THEN [username |-> username, score |-> score] ELSE known[x]]

\* the loop over a Players message: every record but the client's own is set
RECURSIVE ReadPlayers(_, _, _)
ReadPlayers(known, recs, me) ==
    IF recs = << >> THEN known
    ELSE ReadPlayers(IF Head(recs).id # me
                     THEN PlayersSet(known, Head(recs).id, Head(recs).username,
                                     Head(recs).score)
                     ELSE known,
                     Tail(recs), me)

\* the loop over a PlayersJoined message: every record is set with score 0
RECURSIVE ReadJoined(_, _)
ReadJoined(known, recs) ==
    IF recs = << >> THEN known
    ELSE ReadJoined(PlayersSet(known, Head(recs).id, Head(recs).username, 0),
                    Tail(recs))

\* the loop over a PlayersScores message: the score of a known player is set
RECURSIVE ReadScores(_, _)
ReadScores(known, recs) ==
    IF recs = << >> THEN known
    ELSE ReadScores(IF Head(recs).id \in DOMAIN known
                    THEN [known EXCEPT ![Head(recs).id].score = Head(recs).score]
                    ELSE known,
                    Tail(recs))

\* ws.close() after console.error
Rejects(c) == [c EXCEPT !.closed = TRUE]

\* ws.addEventListener("message"): the state of the client after one message
Handled(c, msg) ==
    IF c.me = << >>
    THEN IF msg.kind = "Hello" THEN [c EXCEPT !.me = <<msg.id>>] ELSE Rejects(c)
    ELSE IF ~c.named
    THEN IF msg.kind = "ValidUsername"
         THEN IF msg.valid # 0
              THEN [c EXCEPT !.named = TRUE,
                             !.players = PlayersSet(c.players, c.me[1], msg.name, 0)]
              ELSE c
         ELSE Rejects(c)
    ELSE IF BatchVerify(msg, "Players")
    THEN [c EXCEPT !.players = ReadPlayers(c.players, SubSeq(msg.recs, 1, BatchCount(msg)), c.me[1])]
    ELSE IF BatchVerify(msg, "PlayersJoined")
    THEN [c EXCEPT !.players = ReadJoined(c.players, SubSeq(msg.recs, 1, BatchCount(msg)))]
    ELSE IF BatchVerify(msg, "PlayersScores")
    THEN [c EXCEPT !.players = ReadScores(c.players, SubSeq(msg.recs, 1, BatchCount(msg)))]
    ELSE IF msg.kind = "Pong" THEN c
    ELSE IF msg.kind = "BalloonCreated"
    THEN [c EXCEPT !.balloons = c.balloons \cup {msg.id}]
    ELSE IF msg.kind = "BalloonPop"
    THEN [c EXCEPT !.balloons = c.balloons \ {msg.id}]
    ELSE Rejects(c)

\* ws.addEventListener("open"): the client program of an accepted socket starts
ClientOpen(id) ==
    /\ id \in DOMAIN players
    /\ id \notin DOMAIN client
    /\ client' = [x \in DOMAIN client \cup {id} |->
                     IF x = id THEN NewClient ELSE client[x]]
    /\ wire' = [x \in DOMAIN wire \cup {id} |-> IF x = id THEN << >> ELSE wire[x]]
    /\ UNCHANGED <<server, codec>>

\* ws.addEventListener("message"): the client handles the next message on its
\* socket; a socket the client has closed delivers no more
ClientMessage(id) ==
    /\ id \in DOMAIN client
    /\ ~client[id].closed
    /\ wire[id] # << >>
    /\ client' = [client EXCEPT ![id] = Handled(client[id], Head(wire[id]))]
    /\ wire' = [wire EXCEPT ![id] = Tail(wire[id])]
    /\ UNCHANGED <<server, codec>>

\* frame(): a client that has its name draws its balloons, which records a path
\* for each; no path is ever removed
ClientFrame(id) ==
    /\ id \in DOMAIN client
    /\ ~client[id].closed
    /\ client[id].named
    /\ client' = [client EXCEPT ![id].balloonPaths = @ \cup client[id].balloons]
    /\ UNCHANGED <<server, codec, wire>>

\* frame(), when pingCooldown runs out: the Ping of a client that has its name
\* reaches the server
ClientPing(id, timestamp) ==
    /\ id \in DOMAIN client
    /\ ~client[id].closed
    /\ client[id].named
    /\ ReceivePing(id, timestamp)

\* gameCanvas click on the path of balloon b: the BalloonPop of the client, with
\* its own id, reaches the server
ClientClick(id, b) ==
    /\ id \in DOMAIN client
    /\ ~client[id].closed
    /\ client[id].me # << >>
    /\ b \in client[id].balloonPaths
    /\ ReceiveBalloonPop(id, b, client[id].me[1])

\* usernameInput keydown, Enter: the SetUsername of a client that knows its id
\* and still shows the input reaches the server, with the id as the Uint8 field
\* of the frame holds it
ClientKeydown(id, bytes) ==
    /\ id \in DOMAIN client
    /\ ~client[id].closed
    /\ client[id].me # << >>
    /\ ~client[id].named
    /\ ReceiveSetUsername(id, client[id].me[1] % 256, bytes)

\* the close event at the server of a socket its client has closed
ClientClosed(id) ==
    /\ id \in DOMAIN client
    /\ client[id].closed
    /\ Close(id)

NextClient ==
    \/ (playersJoined < ClientConns /\ Connect)
    \/ \E id \in DOMAIN players :
          \/ ClientOpen(id)
          \/ ClientMessage(id)
          \/ ClientFrame(id)
          \/ ClientClosed(id)
          \/ /\ messagesReceived < ClientFrames
             /\ \/ ClientPing(id, 1)
                \/ \E b \in DOMAIN balloons : ClientClick(id, b)
                \/ ClientKeydown(id, <<97, 0, 0, 0, 0, 0, 0, 0>>)
    \/ (ticksCount < ClientTicks
          /\ DOMAIN players \subseteq DOMAIN client
          /\ \E draw \in BOOLEAN, hue \in Hues : Tick(draw, hue))

SpecClient == Init /\ [][NextClient]_vars

----------------------------------------------------------------------------
(* A server that has been up for a while: client 0 connected, one tick sent  *)
(* it its Hello, which it has read, and then BusyIds - 1 further clients     *)
(* connected and closed again before the next tick.  New clients connect     *)
(* and, like client 0, submit a name.                                        *)

InitBusy ==
    /\ players = [id \in {0} |-> [username |-> Undefined, score |-> 0]]
    /\ balloons = << >>
    /\ idCounter = BusyIds
    /\ balloonCounter = 0
    /\ joinedIds = << >>
    /\ leftIds = << >>
    /\ pingIds = << >>
    /\ requestUsernameIds = << >>
    /\ setUsernameIds = << >>
    /\ createdBalloonIds = << >>
    /\ poppedBalloonIds = << >>
    /\ updatedScorePlayerIds = << >>
    /\ ticksCount = 1
    /\ messagesSent = 1
    /\ bytesSent = LayoutSize("Hello")
    /\ messagesReceived = 0
    /\ bsMessages = 0
    /\ playersRejected = 0
    /\ playersJoined = BusyIds
    /\ playersLeft = BusyIds - 1
    /\ playersCurrently = 1
    /\ closing = {}
    /\ sent = <<Msg(0, "Hello", 0, << >>, 0, << >>)>>
    /\ first = [id \in 0..(BusyIds - 1) |-> IF id = 0 THEN "Hello" ELSE "none"]
    /\ popFrom = << >>
    /\ nameFrom = << >>
    /\ awardedFor = << >>
    /\ issued = [i \in 1..BusyIds |-> [id |-> i - 1, use |-> "connection"]]
    /\ lastPing = << >>
    /\ announced = {}
    /\ applied = {}
    /\ timers = 1
    /\ codecIn = NoCall
    /\ codecOut = NoResult
    /\ client = [id \in {0} |-> [NewClient EXCEPT !.me = <<0>>]]
    /\ wire = [id \in {0} |-> << >>]

NextBusy ==
    \/ (playersJoined < BusyIds + BusyConns /\ Connect)
    \/ \E id \in DOMAIN players :
          \/ ClientOpen(id)
          \/ ClientMessage(id)
          \/ /\ messagesReceived < BusyFrames
             /\ \E bytes \in Names : ClientKeydown(id, bytes)
    \/ (ticksCount < BusyTicks
          /\ DOMAIN players \subseteq DOMAIN client
          /\ \E draw \in BOOLEAN, hue \in Hues : Tick(draw, hue))

SpecBusy == InitBusy /\ [][NextBusy]_vars

----------------------------------------------------------------------------
(* The server with two clients that stay connected and follow the protocol:  *)
(* each asks for a name of its own (a for connection 0, b for connection 1)  *)
(* and, once it has a name, sends pop requests                               *)
(* for itself and a balloon of the map; over enough ticks for two balloons   *)

PairConns == 2

NextPair ==
    \/ (playersJoined < PairConns /\ Connect)
    \/ \E id \in DOMAIN players :
          /\ messagesReceived < PairMessages
          /\ \/ \E bytes \in Names :
                   bytes[1] = 97 + id /\ ReceiveSetUsername(id, id, bytes)
             \/ \E balloonId \in DOMAIN balloons :
                   HasUsername(players[id]) /\ ReceiveBalloonPop(id, balloonId, id)
    \/ (ticksCount < PairTicks
          /\ \E draw \in BOOLEAN, hue \in Hues : Tick(draw, hue))

SpecPair == Init /\ [][NextPair]_vars

----------------------------------------------------------------------------
(* The server with a single client, which sends name requests for itself and *)
(* pop requests naming any id issued so far                                  *)

IssuedIds == 0..(idCounter - 1)

NextSolo ==
    \/ (playersJoined = 0 /\ Connect)
    \/ \E id \in DOMAIN players : Close(id)
    \/ \E id \in DOMAIN players :
          /\ messagesReceived < SoloMessages
          /\ \/ \E bytes \in Names : ReceiveSetUsername(id, id, bytes)
             \/ \E balloonId \in IssuedIds, playerId \in IssuedIds :
                   ReceiveBalloonPop(id, balloonId, playerId)
    \/ (ticksCount < SoloTicks
          /\ \E draw \in BOOLEAN, hue \in Hues : Tick(draw, hue))

SpecSolo == Init /\ [][NextSolo]_vars

----------------------------------------------------------------------------
(* The server filled to its connection limit: clients connect and close      *)

NextCapacity ==
    \/ (playersJoined < CapJoins /\ playersRejected < CapRejected /\ Connect)
    \/ (playersLeft < CapLeft /\ \E id \in DOMAIN players : Close(id))
    \/ (ticksCount < CapTicks /\ \E draw \in BOOLEAN, hue \in Hues : Tick(draw, hue))

SpecCapacity == Init /\ [][NextCapacity]_vars

----------------------------------------------------------------------------
(* The server under clients that send pings, name requests (all for the name *)
(* a) and pop requests for themselves, for a balloon of the map or for an id *)
(* that is not in it, and that may close with their requests still pending   *)

NextStale ==
    \/ (playersJoined < StaleConns /\ Connect)
    \/ \E id \in DOMAIN players : (playersLeft < StaleLeft /\ Close(id))
    \/ \E id \in DOMAIN players :
          /\ messagesReceived < StaleMessages
          /\ \/ ReceiveSetUsername(id, id, <<97, 0, 0, 0, 0, 0, 0, 0>>)
             \/ ReceivePing(id, 1)
             \/ \E balloonId \in DOMAIN balloons \cup {idCounter} :
                   ReceiveBalloonPop(id, balloonId, id)
    \/ (ticksCount < StaleTicks
          /\ \E draw \in BOOLEAN, hue \in Hues : Tick(draw, hue))

SpecStale == Init /\ [][NextStale]_vars

----------------------------------------------------------------------------
(* The server with a single client that stays while balloons spawn, and      *)
(* sends a name request and a pop request with its own id                    *)

NextSpawn ==
    \/ (playersJoined = 0 /\ Connect)
    \/ \E id \in DOMAIN players :
          /\ messagesReceived < SpawnMessages
          /\ \/ \E bytes \in Names : ReceiveSetUsername(id, id, bytes)
             \/ \E balloonId \in DOMAIN balloons : ReceiveBalloonPop(id, balloonId, id)
    \/ (ticksCount < SpawnTicks
          /\ \E draw \in BOOLEAN, hue \in Hues : Tick(draw, hue))

SpecSpawn == Init /\ [][NextSpawn]_vars

----------------------------------------------------------------------------
(* The server with a single client that takes a name and stays, popping      *)
(* nothing, until the balloons reach their limit                             *)

NextFill ==
    \/ (playersJoined = 0 /\ Connect)
    \/ \E id \in DOMAIN players :
          /\ messagesReceived < FillMessages
          /\ \E bytes \in Names : ReceiveSetUsername(id, id, bytes)
    \/ (ticksCount < FillTicks
          /\ \E draw \in BOOLEAN, hue \in Hues : Tick(draw, hue))

SpecFill == Init /\ [][NextFill]_vars

----------------------------------------------------------------------------
(* The server under clients that send every kind of frame, well formed or    *)
(* not, about themselves.  A socket the server has closed does get its close *)
(* event: the close handshake of the ws library ends in one.                 *)

NextWire ==
    \/ (playersJoined < WireConns /\ Connect)
    \/ \E id \in DOMAIN players :
          (id \in closing \/ playersLeft < WireLeft) /\ Close(id)
    \/ \E id \in DOMAIN players :
          /\ messagesReceived < WireMessages
          /\ \/ ReceiveNonBinary(id)
             \/ \E bytes \in Names : ReceiveSetUsername(id, id, bytes)
             \/ \E timestamp \in PingStamps : ReceivePing(id, timestamp)
             \/ \E balloonId \in DOMAIN balloons : ReceiveBalloonPop(id, balloonId, id)
             \/ ReceiveUnverified(id)
    \/ (ticksCount < WireTicks /\ \E draw \in BOOLEAN, hue \in Hues : Tick(draw, hue))

ClosedSocketCloses == WF_vars(\E id \in closing : Close(id))

SpecWire == Init /\ [][NextWire]_vars /\ ClosedSocketCloses

----------------------------------------------------------------------------
(* The server under clients that only ping, and come and go                  *)

NextEcho ==
    \/ (playersJoined < EchoConns /\ Connect)
    \/ \E id \in DOMAIN players : Close(id)
    \/ \E id \in DOMAIN players :
          /\ messagesReceived < EchoMessages
          /\ \E timestamp \in PingStamps : ReceivePing(id, timestamp)
    \/ (ticksCount < EchoTicks /\ \E draw \in BOOLEAN, hue \in Hues : Tick(draw, hue))

SpecEcho == Init /\ [][NextEcho]_vars

----------------------------------------------------------------------------
(* The server with a single client that stays connected and sends its name   *)
(* requests within its first ticks.  tick() ends by scheduling itself, so a  *)
(* tick that can run does run.                                               *)

TickOfStay ==
    ticksCount < StayTicks /\ \E draw \in BOOLEAN, hue \in Hues : Tick(draw, hue)

NextStay ==
    \/ (playersJoined = 0 /\ Connect)
    \/ \E id \in DOMAIN players :
          /\ messagesReceived < StayMessages
          /\ ticksCount < StayNameBy
          /\ \E bytes \in Names : ReceiveSetUsername(id, id, bytes)
    \/ TickOfStay

SpecStay == Init /\ [][NextStay]_vars /\ WF_vars(TickOfStay)

----------------------------------------------------------------------------
(* The codec on its own: one call of verify, or one write of a field into a  *)
(* fresh buffer followed by the read of that field                           *)

\* tag bytes: the kinds, a value just above them, and the largest byte
Tags == (0..7) \cup {255}

\* buffers of every length up to the bound, told apart by their tag byte
Buffers ==
    { [i \in 1..len |-> IF i = 1 THEN tag ELSE 0] : len \in 0..MaxBufferLen, tag \in Tags }

\* ids the server can assign: the first, and those around the field widths
AssignedIds == {0, 1, 255, 256, 65535, 65536, 2147483647}

Stamps == {0, 1000, 2147483647}

SpawnHues == 0..(HueLimit - 1)

\* 8-byte names: those of Names, and one with every byte set
CodecNames == Names \cup { <<255, 254, 253, 252, 251, 250, 249, 248>> }

\* the values the server and its clients write into a numeric field
FieldValues(layout, name) ==
    CASE name = "kind" -> {MessageKind[layout]}
      [] name = "id" -> AssignedIds
      [] name = "timestamp" -> Stamps
      [] name = "valid" -> {0, 1}
      [] name = "hue" -> SpawnHues
      [] OTHER -> {0}

WriteField(type, buf, offset, value, bytes) ==
    CASE type = "uint8" -> SetUint8(buf, offset, value)
      [] type = "uint32" -> SetUint32(buf, offset, value)
      [] type = "uint8array" -> SetUint8Array(buf, offset, bytes)

ReadField(type, buf, offset) ==
    [done |-> TRUE, throws |-> FALSE, accept |-> FALSE,
     value |-> CASE type = "uint8" -> GetUint8(buf, offset)
                 [] type = "uint32" -> GetUint32(buf, offset)
                 [] OTHER -> 0,
     bytes |-> IF type = "uint8array" THEN GetUint8Array(buf, offset) ELSE << >>]

VerifyCall(layout, buf) ==
    /\ codecIn = NoCall
    /\ codecIn' = [op |-> "verify", layout |-> layout, field |-> "none",
                   value |-> 0, bytes |-> buf]
    /\ codecOut' = Verifier(layout, buf)
    /\ UNCHANGED <<server, clients>>

\* Struct.field.write(view, value) on a new view, then Struct.field.read(view)
WriteThenRead(layout, n, value, bytes) ==
    LET field == LayoutFields[layout][n]
        offset == Allocated(layout, n - 1)
        view == ZeroBuffer(LayoutSize(layout))
    IN /\ codecIn = NoCall
       /\ codecIn' = [op |-> "roundtrip", layout |-> layout, field |-> field.name,
                      value |-> value, bytes |-> bytes]
       /\ codecOut' = ReadField(field.type,
                                WriteField(field.type, view, offset, value, bytes),
                                offset)
       /\ UNCHANGED <<server, clients>>

\* UTF-16 code units: letters, the ends of the byte range, and two above it
\* (256, and 8364 for the euro sign)
CharCodes == {97, 98, 255, 256, 8364}

\* strings of every length up to the bound, as the sequences of their code units
Strings ==
    { [i \in 1..len |-> IF i % 2 = 1 THEN c ELSE d] :
        len \in 0..MaxStrLen, c \in CharCodes, d \in CharCodes }

\* array[i] = (str.charCodeAt(i) || 0) into a new Uint8Array(length): charCodeAt
\* is NaN past the end of the string, and a Uint8Array element keeps the value
\* modulo 2^8
stringToUint8Array(str, length) ==
    [i \in 1..length |-> IF i <= Len(str) THEN str[i] % 256 ELSE 0]

\* stringToUint8Array(str, USERNAME_LENGTH), written into the value field of a
\* new SetUsername view and read back: accept tells whether the bytes read are
\* the bytes written
EncodeName(str) ==
    LET array == stringToUint8Array(str, USERNAME_LENGTH)
        offset == Allocated("SetUsername", 2)
        view == ZeroBuffer(LayoutSize("SetUsername"))
        back == GetUint8Array(SetUint8Array(view, offset, array), offset)
    IN /\ codecIn = NoCall
       /\ codecIn' = [op |-> "name", layout |-> "SetUsername", field |-> "value",
                      value |-> 0, bytes |-> str]
       /\ codecOut' = [done |-> TRUE, throws |-> FALSE, accept |-> (back = array),
                       value |-> 0, bytes |-> array]
       /\ UNCHANGED <<server, clients>>

\* the numeric and byte-array fields; x and y are Float32 and are left out
NextCodec ==
    \/ \E layout \in Layouts, buf \in Buffers : VerifyCall(layout, buf)
    \/ \E str \in Strings : EncodeName(str)
    \/ \E layout \in Layouts :
          \E n \in DOMAIN LayoutFields[layout] :
             LET field == LayoutFields[layout][n]
             IN \/ /\ field.type \in {"uint8", "uint32"}
                   /\ \E value \in FieldValues(layout, field.name) :
                         WriteThenRead(layout, n, value, << >>)
                \/ /\ field.type = "uint8array"
                   /\ \E bytes \in CodecNames : WriteThenRead(layout, n, 0, bytes)

SpecCodec == Init /\ [][NextCodec]_vars

----------------------------------------------------------------------------
(* Claims *)

TickStep == ticksCount' # ticksCount

NamedIn(pl, id) == id \in DOMAIN pl /\ HasUsername(pl[id])

\* C1: the registry never holds more than SERVER_LIMIT connections, and a
\* connection attempt that arrives while SERVER_LIMIT connections are live adds
\* nothing to the registry or the joined inbox, consumes no id and is sent nothing.
CapacityRespected ==
    /\ [](Cardinality(DOMAIN players) <= SERVER_LIMIT)
    /\ [][Cardinality(DOMAIN players) >= SERVER_LIMIT =>
            /\ DOMAIN players' \subseteq DOMAIN players
            /\ Range(joinedIds') \subseteq Range(joinedIds)
            /\ DOMAIN first' = DOMAIN first
            /\ (playersRejected' # playersRejected =>
                  /\ idCounter' = idCounter
                  /\ players' = players
                  /\ sent' = sent
                  /\ first' = first)]_vars

\* C1 witness: an attempt was rejected and the registry is full.
CapacityWitness ==
    /\ playersRejected > 0
    /\ Cardinality(DOMAIN players) = SERVER_LIMIT

\* C2: the first message ever sent to a connection is its Hello.
HelloIsFirst == \A id \in DOMAIN first : first[id] \in {"none", "Hello"}

\* C3: a tick that processes a name request whose bytes equal the name held by
\* another live named connection (one with no request of its own pending) sends
\* the requester ValidUsername with valid = 0 and leaves its name unchanged.
DuplicateNameRejected ==
    [][TickStep =>
         \A i \in DOMAIN requestUsernameIds :
            LET req == requestUsernameIds[i]
            IN (/\ req.k \in DOMAIN players
                /\ \E other \in NamedIds(players) \ (Keys(requestUsernameIds) \cup {req.k}) :
                      players[other].username.bytes = req.v.bytes)
               => /\ \E j \in DOMAIN sent' :
                        /\ sent'[j].kind = "ValidUsername"
                        /\ sent'[j].to = req.k
                        /\ sent'[j].valid = 0
                  /\ players'[req.k].username = players[req.k].username]_vars

\* C4: once the name requests of two live connections have been processed in
\* different ticks, the two do not hold byte-equal names: a tick that processes the
\* request of one while the other was named by an earlier tick leaves them with
\* different names.
NamesUniqueAcrossTicks ==
    [][TickStep =>
         \A i \in DOMAIN requestUsernameIds :
            LET requester == requestUsernameIds[i].k
            IN \A other \in NamedIds(players) \ (Keys(requestUsernameIds) \cup {requester}) :
                  NamedIn(players', requester)
                  => players'[requester].username.bytes # players'[other].username.bytes]_vars

\* C5: after a tick that processes a pending pop request, the balloons map has no
\* entry for the popped balloon.
PoppedBalloonRemoved ==
    [][TickStep => \A b \in Keys(poppedBalloonIds) : b \notin DOMAIN balloons']_vars

\* C6: the points awarded for one balloon id, over all ticks, are at most one
\* increment.
PopAwardedOnce == \A b \in DOMAIN awardedFor : awardedFor[b] <= SCORE_INCREMENT

\* C7: the balloons map never holds more than BALLOON_LIMIT entries.
BalloonsWithinLimit == Cardinality(DOMAIN balloons) <= BALLOON_LIMIT

\* the pending pops that name connection id
PopsNaming(id) == { i \in DOMAIN poppedBalloonIds : poppedBalloonIds[i].v = id }

\* C8 as claimed: a score starts at 0 and in every step stays the same or grows by
\* exactly 5, and it grows only in a tick that processes a pending pop whose
\* balloon was in the map at the start of the tick.
ScoreStepsByOneIncrement ==
    [][/\ \A id \in DOMAIN players' \ DOMAIN players : players'[id].score = 0
       /\ \A id \in DOMAIN players' \cap DOMAIN players :
             \/ players'[id].score = players[id].score
             \/ /\ players'[id].score = players[id].score + SCORE_INCREMENT
                /\ TickStep
                /\ \E i \in DOMAIN poppedBalloonIds :
                      poppedBalloonIds[i].k \in DOMAIN balloons]_vars

\* C8 as amended: a score starts at 0 and in every step stays the same or grows by
\* 5 for each pending pop that names its connection, and it grows only in a tick
\* that processes such pops, each for a balloon that was in the map at the start
\* of the tick.
ScoreGrowsByIncrementPerPop ==
    [][/\ \A id \in DOMAIN players' \ DOMAIN players : players'[id].score = 0
       /\ \A id \in DOMAIN players' \cap DOMAIN players :
             \/ players'[id].score = players[id].score
             \/ /\ players'[id].score =
                      players[id].score + SCORE_INCREMENT * Cardinality(PopsNaming(id))
                /\ TickStep
                /\ \A i \in PopsNaming(id) :
                      poppedBalloonIds[i].k \in DOMAIN balloons]_vars

\* C8 witness: the latest tick processed pops of two balloons and a connection
\* holds two increments.
TwoPopsInOneTick ==
    /\ Cardinality({ sent[i].id : i \in { j \in DOMAIN sent : sent[j].kind = "BalloonPop" } }) = 2
    /\ \E id \in DOMAIN players : players[id].score = 2 * SCORE_INCREMENT

GameplayKinds == {"BalloonCreated", "BalloonPop", "PlayersScores", "PlayersJoined", "Players"}

\* C9: every gameplay message a tick sends goes to a connection that has a name
\* at the moment of sending: a BalloonPop (sent before the tick's name
\* negotiation) to one named before the tick, and a Players, PlayersJoined,
\* PlayersScores or BalloonCreated (sent after it) to one named after it.
GameplayOnlyToNamed ==
    [][TickStep =>
         \A i \in DOMAIN sent' :
            /\ sent'[i].kind = "BalloonPop" => NamedIn(players, sent'[i].to)
            /\ sent'[i].kind \in GameplayKinds => NamedIn(players', sent'[i].to)]_vars

\* C9 witness: the latest tick broadcast a BalloonCreated and sent a Hello to a
\* connection that is unnamed.
BroadcastBesideUnnamed ==
    /\ \E i \in DOMAIN sent : sent[i].kind = "BalloonCreated"
    /\ \E j \in DOMAIN sent :
          /\ sent[j].kind = "Hello"
          /\ sent[j].to \in DOMAIN players
          /\ ~HasUsername(players[sent[j].to])

\* C10: a tick whose pending pops were all delivered by connections unnamed at
\* delivery changes no score and sends no BalloonPop and no PlayersScores.
UnnamedPopHasNoEffect ==
    [][(/\ TickStep
        /\ poppedBalloonIds # << >>
        /\ \A b \in DOMAIN popFrom : ~popFrom[b].named)
       => /\ \A id \in DOMAIN players : players'[id].score = players[id].score
          /\ \A i \in DOMAIN sent' : sent'[i].kind \notin {"BalloonPop", "PlayersScores"}]_vars

FrameStep == messagesReceived' # messagesReceived

\* C11: a step that handles an inbound frame leaves the players registry (every
\* player's name and score), the balloons map and the live-balloon counter
\* unchanged.
FrameOnlyEnqueues ==
    [][FrameStep =>
         /\ players' = players
         /\ balloons' = balloons
         /\ balloonCounter' = balloonCounter]_vars

InboxesEmpty ==
    /\ joinedIds = << >>
    /\ leftIds = << >>
    /\ pingIds = << >>
    /\ requestUsernameIds = << >>
    /\ setUsernameIds = << >>
    /\ createdBalloonIds = << >>
    /\ poppedBalloonIds = << >>
    /\ updatedScorePlayerIds = << >>

\* C12: every tick ends with all the per-tick inboxes empty, whatever they held
\* and whether or not the tick acted on their entries.
InboxesClearedByTick == [][TickStep => InboxesEmpty']_vars

\* C12 witness: the first tick ran after a well-formed frame was enqueued, sent
\* nothing for it (its connection had closed) and left the inboxes empty.
InboxClearedUnread ==
    /\ ticksCount = 1
    /\ messagesReceived > 0
    /\ bsMessages = 0
    /\ sent = << >>
    /\ InboxesEmpty

IssuedAs(use) == { issued[i].id : i \in { j \in DOMAIN issued : issued[j].use = use } }

\* C13: the ids of all connections and balloons ever created are pairwise
\* distinct: no id is taken from the counter twice, every connection in the
\* registry and every balloon in the map holds an id issued for that use, and no
\* id was issued for both uses.
IdsIssuedOnce ==
    /\ \A i, j \in DOMAIN issued : i # j => issued[i].id # issued[j].id
    /\ DOMAIN players \subseteq IssuedAs("connection")
    /\ DOMAIN balloons \subseteq IssuedAs("balloon")
    /\ IssuedAs("connection") \cap IssuedAs("balloon") = {}

\* C13 witness: a connection closed, a balloon and a later connection were then
\* given ids.
IdIssuedAfterClose ==
    \E i, j, k \in DOMAIN issued :
       /\ i < j /\ i < k
       /\ issued[i].use = "connection"
       /\ issued[i].id \notin DOMAIN players
       /\ issued[j].use = "connection"
       /\ issued[k].use = "balloon"

inboxes == <<joinedIds, leftIds, pingIds, requestUsernameIds, setUsernameIds,
             createdBalloonIds, poppedBalloonIds, updatedScorePlayerIds>>

\* the ids a connection can hold under SpecWire
WireIds == 0..(WireConns + WireTicks)

\* C14: a step in which connection id delivers a non-binary frame, or a buffer
\* that no layout verifies, adds one to the malformed-message counter, enqueues
\* nothing, and has the server close the socket; and a connection whose socket the
\* server closed is eventually out of the registry.
MalformedIsFatal ==
    /\ [][\A id \in DOMAIN players :
            (ReceiveNonBinary(id) \/ ReceiveUnverified(id))
            => /\ bsMessages' = bsMessages + 1
               /\ inboxes' = inboxes
               /\ id \in closing']_vars
    /\ \A id \in WireIds : (id \in closing) ~> (id \notin DOMAIN players)

\* C14 witness: a malformed frame was counted and its connection, the only one,
\* is out of the registry.
MalformedSenderRemoved ==
    /\ bsMessages > 0
    /\ playersJoined = 1
    /\ closing = {}
    /\ DOMAIN players = {}

\* the Pongs among the messages of a tick (a Pong carries its timestamp as id)
PongsIn(out) == { i \in DOMAIN out : out[i].kind = "Pong" }

\* C15: a tick sends every connection that pinged since the previous tick and is
\* still in the registry exactly one Pong, carrying the timestamp of its latest
\* Ping, and sends no Pong to anyone else.
PongEchoesLatestPing ==
    [][TickStep =>
         LET pinged == DOMAIN lastPing \cap DOMAIN players
         IN /\ \A id \in pinged :
                  /\ Cardinality({ i \in PongsIn(sent') : sent'[i].to = id }) = 1
                  /\ \A i \in PongsIn(sent') :
                        sent'[i].to = id => sent'[i].id = lastPing[id]
            /\ \A i \in PongsIn(sent') : sent'[i].to \in pinged]_vars

\* C15 witness: the first tick ran after two Pings of the only connection and
\* sent it one Pong.
TwoPingsOnePong ==
    /\ ticksCount = 1
    /\ playersJoined = 1
    /\ messagesReceived = 2
    /\ pingIds = << >>
    /\ Cardinality(PongsIn(sent)) = 1

\* the only connection of SpecStay
StayIds == {0}

CreatedSentTo(id) ==
    \E i \in DOMAIN sent : sent[i].kind = "BalloonCreated" /\ sent[i].to = id

\* C16: from a state in which a connection that stays connected has a name and
\* the balloons map is empty, a BalloonCreated is eventually sent to it.
SpawnEventuallyAnnounced ==
    \A id \in StayIds :
       (NamedIn(players, id) /\ DOMAIN balloons = {}) ~> CreatedSentTo(id)

\* C16 witness: the connection was named by a tick that considered no spawn, and
\* the tick with counter 30 sent it a BalloonCreated.
AnnouncedAfterWait ==
    /\ ticksCount = 31
    /\ Cardinality(DOMAIN balloons) = 1
    /\ \E id \in StayIds : NamedIn(players, id) /\ CreatedSentTo(id)

\* C17: once a tick has applied a named connection's pop request for a balloon
\* that was announced as created, no later tick sends a message that carries that
\* balloon's id.
NoReferenceAfterPop ==
    [][TickStep =>
         \A i \in DOMAIN sent' :
            sent'[i].kind \in {"BalloonPop", "BalloonCreated"} => sent'[i].id \notin applied]_vars

\* C18: at most one tick is pending at any time; a tick runs only as the one
\* pending callback, and the step that ends it, inboxes cleared, is the only step
\* that schedules the next.
TicksNeverOverlap ==
    /\ [](timers <= 1)
    /\ [][/\ TickStep => (timers = 1 /\ timers' = 1 /\ InboxesEmpty')
          /\ timers' # timers => TickStep]_vars

\* C18 witness: two ticks have run and one is pending.
SecondTickPending == ticksCount >= 2 /\ timers = 1

\* C19: verify returns, for any buffer and any layout, without throwing, and
\* accepts exactly when the buffer's length is the layout's size and its byte 0 is
\* the layout's kind tag.
VerifyIsLengthAndTag ==
    codecIn.op = "verify" =>
       /\ codecOut.done
       /\ ~codecOut.throws
       /\ codecOut.accept <=>
             (/\ Len(codecIn.bytes) = LayoutSize(codecIn.layout)
              /\ codecIn.bytes[1] = MessageKind[codecIn.layout])

\* C19 witness: verify was called on a zero-length buffer and returned a reject.
VerifyRejectedEmptyBuffer ==
    /\ codecIn.op = "verify"
    /\ codecIn.bytes = << >>
    /\ codecOut.done
    /\ ~codecOut.throws
    /\ ~codecOut.accept

\* C20: a field read back after it was written holds the value written, for every
\* value the program writes: kinds, assigned ids, hues 0..359, 8-byte names.
RoundTripExact ==
    codecIn.op = "roundtrip" =>
       /\ codecOut.done
       /\ codecOut.value = codecIn.value
       /\ codecOut.bytes = codecIn.bytes

\* C21: stringToUint8Array(str, 8) returns 8 bytes, byte i the character code of
\* str[i] for i below min(length, 8) and every other byte 0, and the array read
\* back from a name field it was written to is the same 8 bytes.
NameBytesAreCharCodes ==
    codecIn.op = "name" =>
       /\ Len(codecOut.bytes) = USERNAME_LENGTH
       /\ \A i \in 1..USERNAME_LENGTH :
             codecOut.bytes[i] = (IF i <= Len(codecIn.bytes) THEN codecIn.bytes[i] ELSE 0)
       /\ codecOut.accept

\* C22: the name result of a request goes to the connection whose socket
\* delivered the request, and a name changes only on the connection whose own
\* socket delivered the pending request for it.
NameResultToRequester ==
    [][TickStep =>
         /\ \A i \in DOMAIN sent' :
               sent'[i].kind = "ValidUsername" =>
                  \E p \in DOMAIN nameFrom : nameFrom[p] = sent'[i].to
         /\ \A id \in DOMAIN players :
               players'[id].username # players[id].username =>
                  id \in DOMAIN nameFrom /\ nameFrom[id] = id]_vars

\* the pending pops that the socket of connection id delivered
PopsDeliveredBy(id) == { b \in DOMAIN popFrom : popFrom[b].from = id }

\* C23: a tick awards the 5 points of a pop to the connection whose socket
\* delivered the pop request: a score grows by 5 for each pending pop that
\* connection's own socket delivered, and by nothing else.
AwardToPopSender ==
    [][TickStep =>
         \A id \in DOMAIN players :
            players'[id].score =
               players[id].score + SCORE_INCREMENT * Cardinality(PopsDeliveredBy(id))]_vars

\* the PlayersScores messages of a tick's output that went to connection id
ScoresTo(out, id) ==
    SelectSeq(out, LAMBDA msg : msg.kind = "PlayersScores" /\ msg.to = id)

\* the connections a tick marks for a score update: the live ones that a pending
\* pop names
MarkedIn(pl, popped) == { popped[i].v : i \in DOMAIN popped } \cap DOMAIN pl

\* C24: in a tick that marks k >= 1 connections for a score update, every named
\* connection is sent exactly one PlayersScores message, whose records are the
\* (id, current score) pairs of the marked connections and name no other.
OneScoresMessagePerTick ==
    [][(TickStep /\ MarkedIn(players, poppedBalloonIds) # {}) =>
         \A id \in NamedIds(players') :
            /\ Len(ScoresTo(sent', id)) = 1
            /\ { ScoresTo(sent', id)[1].recs[i] : i \in DOMAIN ScoresTo(sent', id)[1].recs }
                  = { [id |-> m, score |-> players'[m].score] :
                        m \in MarkedIn(players, poppedBalloonIds) }]_vars

\* the connections whose username a step sets: every accepted request assigns
\* the Uint8Array of its own frame
NewlyNamed == { id \in DOMAIN players : players'[id].username # players[id].username }

\* the messages of one kind in a tick's output that went to connection id
KindTo(out, kind, id) == SelectSeq(out, LAMBDA msg : msg.kind = kind /\ msg.to = id)

\* C25: in a tick with a non-empty newly named set S, each connection of S is
\* sent one Players snapshot whose records are the (id, name, score) of the named
\* connections outside S, each named connection outside S is sent one
\* PlayersJoined whose records are the (id, name) of the members of S, and no
\* unnamed connection is sent either.
NewlyNamedReconciled ==
    [][(TickStep /\ NewlyNamed # {}) =>
         /\ \A id \in NewlyNamed :
               /\ Len(KindTo(sent', "Players", id)) = 1
               /\ LET recs == KindTo(sent', "Players", id)[1].recs
                  IN /\ Len(recs) = Cardinality(NamedIds(players') \ NewlyNamed)
                     /\ Range(recs) =
                           { [id |-> m, username |-> players'[m].username.bytes,
                              score |-> players'[m].score] :
                               m \in NamedIds(players') \ NewlyNamed }
         /\ \A id \in NamedIds(players') \ NewlyNamed :
               /\ Len(KindTo(sent', "PlayersJoined", id)) = 1
               /\ LET recs == KindTo(sent', "PlayersJoined", id)[1].recs
                  IN /\ Len(recs) = Cardinality(NewlyNamed)
                     /\ Range(recs) =
                           { [id |-> m, username |-> players'[m].username.bytes] :
                               m \in NewlyNamed }
         /\ \A i \in DOMAIN sent' :
               sent'[i].kind \in {"Players", "PlayersJoined"} =>
                  NamedIn(players', sent'[i].to)]_vars

\* C25 witness: the latest tick sent a snapshot with a record to a newly named
\* connection and a PlayersJoined with a record to a connection named before.
SnapshotAndJoinedSent ==
    /\ \E i \in DOMAIN sent : sent[i].kind = "Players" /\ Len(sent[i].recs) = 1
    /\ \E i \in DOMAIN sent : sent[i].kind = "PlayersJoined" /\ Len(sent[i].recs) = 1

\* C26: when two connections are both newly named in one tick, that tick sends
\* each of them a record holding the other's id and name.
NewlyNamedLearnEachOther ==
    [][TickStep =>
         \A a \in NewlyNamed : \A b \in NewlyNamed \ {a} :
            \E i \in DOMAIN sent' :
               /\ sent'[i].to = a
               /\ \E j \in DOMAIN sent'[i].recs :
                     /\ sent'[i].recs[j].id = b
                     /\ "username" \in DOMAIN sent'[i].recs[j]
                     /\ sent'[i].recs[j].username = players'[b].username.bytes]_vars

\* the balloons a step adds to the map
CreatedBy == DOMAIN balloons' \ DOMAIN balloons

\* C27: only a tick creates a balloon, and only a tick whose tick counter is a
\* multiple of SERVER_FPS / 2, in which a named connection exists and the
\* live-balloon counter is below BALLOON_LIMIT; a tick creates at most one.
SpawnOnlyWhenDue ==
    [][CreatedBy # {} =>
         /\ TickStep
         /\ ticksCount % (SERVER_FPS \div 2) = 0
         /\ NamedIds(players') # {}
         /\ balloonCounter < BALLOON_LIMIT
         /\ Cardinality(CreatedBy) = 1]_vars

\* C27 witness: ten ticks created a balloon each, and the tick after them whose
\* counter was a multiple of SERVER_FPS / 2 found the counter at the limit and
\* created none.
SpawnRefusedAtLimit ==
    /\ ticksCount = BALLOON_LIMIT * (SERVER_FPS \div 2) + 1
    /\ balloonCounter = BALLOON_LIMIT
    /\ Cardinality(DOMAIN balloons) = BALLOON_LIMIT
    /\ NamedIds(players) # {}

\* the BalloonCreated messages of a tick's output for balloon b to connection id
CreatedTo(out, b, id) ==
    SelectSeq(out, LAMBDA msg : msg.kind = "BalloonCreated" /\ msg.id = b /\ msg.to = id)

\* C28: the tick that creates a balloon sends exactly one BalloonCreated with
\* its id to each connection named at that moment, and a tick sends a
\* BalloonCreated only for a balloon it created itself, so none is announced
\* again later.
CreatedAnnouncedOnce ==
    [][TickStep =>
         /\ \A b \in CreatedBy : \A id \in NamedIds(players') :
               Len(CreatedTo(sent', b, id)) = 1
         /\ \A i \in DOMAIN sent' :
               sent'[i].kind = "BalloonCreated" =>
                  /\ sent'[i].id \in CreatedBy
                  /\ sent'[i].id \notin announced]_vars

\* C28 witness: the latest tick created a balloon and announced it to two named
\* connections.
CreatedSentToTwo ==
    \E b \in DOMAIN balloons :
       /\ Len(CreatedTo(sent, b, 0)) = 1
       /\ Len(CreatedTo(sent, b, 1)) = 1

\* the ids a pop frame can carry that are not in the balloons map
StaleBalloonIds == (0..idCounter) \ DOMAIN balloons

CounterIsMapSize ==
    /\ balloonCounter = Cardinality(DOMAIN balloons)
    /\ balloonCounter >= 0

\* the clients that are connected, have their name and have handled every
\* message sent to them so far
SettledClients ==
    { id \in DOMAIN client \cap DOMAIN players :
        client[id].named /\ ~client[id].closed /\ wire[id] = << >> }

\* C31: once a named client has handled every message sent to it so far, its
\* set of balloon ids is the set of ids in the server's balloons map.
ClientSeesServerBalloons ==
    \A id \in SettledClients : client[id].balloons = DOMAIN balloons

\* C32: no client that follows the client program is ever sent a message that
\* its state at the time rejects, so none has closed its socket on one.
NoClientRejects == \A id \in DOMAIN client : ~client[id].closed

\* C33: a SetUsername frame in which a client writes its own id is filed by the
\* server under the connection of the socket that delivered it, whatever id
\* the counter assigned to that connection.
OwnIdAttributed == \A p \in DOMAIN nameFrom : nameFrom[p] = p

\* the number of entries of an inbox that are id
Entries(inbox, id) == Cardinality({ i \in DOMAIN inbox : inbox[i] = id })

\* C34: the close of a connection that is still in the joined inbox takes it out
\* of that inbox and puts it in neither; the close of any other connection puts
\* it in the left inbox once; and a connection that has closed is sent nothing
\* (no Hello if it had none) and enters no inbox again.
CloseBeforeTickLeavesNoTrace ==
    [][/\ \A id \in DOMAIN players \ DOMAIN players' :
             /\ Entries(joinedIds', id) = 0
             /\ Entries(leftIds', id) = (IF Entries(joinedIds, id) > 0 THEN 0 ELSE 1)
       /\ \A id \in DOMAIN first \ DOMAIN players :
             /\ first'[id] = first[id]
             /\ Entries(joinedIds', id) = 0
             /\ Entries(leftIds', id) <= Entries(leftIds, id)]_vars

\* C34 witness: after two ticks, one connection has closed without ever being
\* sent a message and another has closed after its Hello.
ClosedBeforeAndAfterHello ==
    /\ ticksCount = 2
    /\ \E id \in DOMAIN first \ DOMAIN players : first[id] = "none"
    /\ \E id \in DOMAIN first \ DOMAIN players : first[id] = "Hello"

\* C35: in every state the currently-connected counter is the number of
\* connections in the registry and is total joined minus total left; and the
\* rejected counter moves by one exactly in a step that refuses a connection
\* attempt for capacity, which a full registry does and no other does.
ConnectionTelemetryConsistent ==
    /\ [](/\ playersCurrently = Cardinality(DOMAIN players)
          /\ playersCurrently = playersJoined - playersLeft)
    /\ [][/\ playersRejected' # playersRejected =>
               /\ playersRejected' = playersRejected + 1
               /\ Cardinality(DOMAIN players) >= SERVER_LIMIT
               /\ players' = players
               /\ playersJoined' = playersJoined
          /\ playersJoined' # playersJoined =>
               /\ playersJoined' = playersJoined + 1
               /\ Cardinality(DOMAIN players) < SERVER_LIMIT
               /\ Cardinality(DOMAIN players') = Cardinality(DOMAIN players) + 1
               /\ playersRejected' = playersRejected
          /\ playersLeft' # playersLeft =>
               /\ playersLeft' = playersLeft + 1
               /\ Cardinality(DOMAIN players') = Cardinality(DOMAIN players) - 1]_vars

\* C35 witness: an attempt was refused at a full registry and a connection
\* has left since.
LeftAfterRefusal ==
    /\ playersRejected = 1
    /\ playersLeft = 1
    /\ playersJoined = SERVER_LIMIT
    /\ playersCurrently = SERVER_LIMIT - 1

\* C36: after every tick the total-messages-sent counter is the number of
\* messages sent in all ticks so far and the total-bytes-sent counter is the
\* sum of their byte lengths, whatever their kinds.  Both totals start at 0 and
\* only a tick sends, so this is: every tick adds to the first the number of
\* messages it sent and to the second the sum of their byte lengths.
SentTotalsMatch ==
    [][TickStep =>
         /\ messagesSent' = messagesSent + Len(sent')
         /\ bytesSent' = bytesSent + Bytes(sent')]_vars

====
